---------------------------- MODULE Spec2Model ----------------------------
(***************************************************************************)
(* A model of the audio-processor crate: AudioProcessor (src/src/lib.rs)   *)
(* and the filter builder (src/src/processing.rs).                         *)
(*                                                                         *)
(* Strings are sequences of tokens, so that format!("seeked_{}", p) is a   *)
(* real concatenation and the manifest line can be read back.  A Duration  *)
(* is a number of milliseconds; an f32 is a number of thousandths.         *)
(* Every public operation spawns the engine and blocks on it: a call is    *)
(* split at that one blocking point (the spawn, then the engine's exit),   *)
(* so that several callers may have their engines running at once.  The    *)
(* engine's exit status is not decided by the crate and is left free.      *)
(*                                                                         *)
(* A call is remembered in full while it is in progress and for as long as *)
(* the Artifact it returned is around; of a call that has returned, what   *)
(* is left otherwise is its result, and the latest one is kept.            *)
(***************************************************************************)
EXTENDS Integers, Sequences, FiniteSets, TLC

VARIABLES
    artifacts,   \* every AudioProcessor value created so far: its file_path
    calls,       \* call id -> the call, while it runs or its Artifact is around
    last,        \* the call that returned most recently: its result
    nCalls,      \* number of calls started so far
    files,       \* audio files on disk: location -> the call that wrote it (0: given)
    manifests    \* temporary list files on disk: path -> lines

vars == <<artifacts, calls, last, nCalls, files, manifests>>

-----------------------------------------------------------------------------
(* Bounds of the model                                                     *)

MaxCalls == 2
MaxThreads == 2

\* Locations that exist before any call, and one that does not.
PlainFile == <<"a.wav">>
QuoteFile == <<"it", "'", "s.wav">>
MissingFile == <<"missing.wav">>
BaseFiles == {PlainFile, QuoteFile}
NewPaths == BaseFiles \cup {MissingFile}
\* Caller-supplied output locations of transcode and merge_audios.
OutPaths == {PlainFile, <<"out.mp3">>}

\* trim(start, end): a range in order and one out of order
TrimRanges == {<<1000, 4000>>, <<4000, 1000>>}
Positions == {2500}
FadeTimes == {2000}
Delays == {500}
OverlayStarts == {1500}
Factors == {0, 1250, 3000}
Gains == {1500, -500}
Decays == {500, 0}

-----------------------------------------------------------------------------
(* Formatting                                                              *)

Str(s) == <<s>>
NoLoc == <<>>

Digit(d) == <<"0", "1", "2", "3", "4", "5", "6", "7", "8", "9">>[d + 1]

\* format!("{}", n) of an unsigned integer
RECURSIVE FmtUnsigned(_)
FmtUnsigned(n) ==
    IF n < 10 THEN <<Digit(n)>> ELSE FmtUnsigned(n \div 10) \o <<Digit(n % 10)>>

\* The fractional digits of th thousandths, trailing zeros dropped.
FmtFraction(th) ==
    IF th % 100 = 0 THEN <<Digit(th \div 100)>>
    ELSE IF th % 10 = 0 THEN <<Digit(th \div 100), Digit((th \div 10) % 10)>>
    ELSE <<Digit(th \div 100), Digit((th \div 10) % 10), Digit(th % 10)>>

\* format!("{}", x) of an f32 held as thousandths: 1250 is "1.25", 3000 is "3"
FmtF32(x) ==
    LET m == IF x < 0 THEN -x ELSE x
        sign == IF x < 0 THEN <<"-">> ELSE <<>>
        whole == FmtUnsigned(m \div 1000)
    IN  IF m % 1000 = 0 THEN sign \o whole
        ELSE sign \o whole \o <<".">> \o FmtFraction(m % 1000)

as_secs(d) == d \div 1000
as_millis(d) == d
as_secs_f32(d) == d

-----------------------------------------------------------------------------
(* src/src/processing.rs                                                   *)

FadeIn(dur) == [kind |-> "FadeIn", dur |-> dur, decay |-> 0]
FadeOut(dur) == [kind |-> "FadeOut", dur |-> dur, decay |-> 0]
Echo(delay, decay) == [kind |-> "Echo", dur |-> delay, decay |-> decay]
NoEffect == [kind |-> "", dur |-> 0, decay |-> 0]

AudioEffect ==
    {FadeIn(d) : d \in FadeTimes} \cup {FadeOut(d) : d \in FadeTimes}
        \cup {Echo(d, c) : d \in Delays, c \in Decays}

effect_to_filter(effect) ==
    CASE effect.kind = "FadeIn" ->
            <<"afade=t=in:st=0:d=">> \o FmtF32(as_secs_f32(effect.dur))
      [] effect.kind = "FadeOut" ->
            <<"afade=t=out:st=0:d=">> \o FmtF32(as_secs_f32(effect.dur))
      [] effect.kind = "Echo" ->
            <<"aecho=0.8:0.9:">> \o FmtUnsigned(as_millis(effect.dur))
                \o <<":">> \o FmtF32(effect.decay)


-----------------------------------------------------------------------------
(* src/src/errors.rs and the values a call returns                         *)

Ok(file_path) == [kind |-> "Ok", loc |-> file_path, msg |-> ""]
OkUnit == [kind |-> "Unit", loc |-> NoLoc, msg |-> ""]
IoError == [kind |-> "IoError", loc |-> NoLoc, msg |-> ""]
FfmpegError(msg) == [kind |-> "FfmpegError", loc |-> NoLoc, msg |-> msg]
InvalidParameter(msg) == [kind |-> "InvalidParameter", loc |-> NoLoc, msg |-> msg]
\* merge_audios unwinds when the temporary path is not UTF-8 (to_str().unwrap()).
Panicked == [kind |-> "Panic", loc |-> NoLoc, msg |-> ""]
\* The call has not returned: it is blocked in Command::status().
Blocked == [kind |-> "Blocked", loc |-> NoLoc, msg |-> ""]

\* The status is not looked at.
StatusIgnored(success, value, label) == value

\* if status.success() { Ok(..) } else { Err(AudioError::FfmpegError(..)) }
StatusResult(success, value, label) ==
    IF success THEN value ELSE FfmpegError(label)

-----------------------------------------------------------------------------
(* The argument vector of each operation (src/src/lib.rs)                  *)

\* format!("seeked_{}", self.file_path) and its like
Prefixed(prefix, file_path) == <<prefix>> \o file_path

SeekArgs(file_path, position, output_file) ==
    LET pos_str == FmtUnsigned(as_secs(position))
    IN  <<Str("-ss"), pos_str, Str("-i"), file_path, Str("-c"), Str("copy"),
          output_file, Str("-y")>>

TrimArgs(file_path, start, end, output_file) ==
    LET start_str == FmtUnsigned(as_secs(start))
        end_str == FmtUnsigned(as_secs(end))
    IN  <<Str("-ss"), start_str, Str("-to"), end_str, Str("-i"), file_path,
          Str("-c"), Str("copy"), output_file, Str("-y")>>

TranscodeArgs(file_path, output_path) ==
    <<Str("-i"), file_path, output_path, Str("-y")>>

\* The output is named after the factor as well.
VolumeNamedByFactor(file_path, factor, output_file) ==
    LET filter == <<"volume=">> \o FmtF32(factor)
    IN  <<Str("-i"), file_path, Str("-af"), filter,
          <<"volume_adjusted_">> \o FmtF32(factor) \o <<"_">> \o file_path, Str("-y")>>

AdjustVolumeArgs(file_path, factor, output_file) ==
    LET filter == <<"volume=">> \o FmtF32(factor)
    IN  <<Str("-i"), file_path, Str("-af"), filter, output_file, Str("-y")>>

ChangeSpeedArgs(file_path, factor, output_file) ==
    LET filter == <<"atempo=">> \o FmtF32(factor)
    IN  <<Str("-i"), file_path, Str("-filter:a"), filter, output_file, Str("-y")>>

ApplyEffectArgs(file_path, effect, output_file) ==
    LET filter == effect_to_filter(effect)
    IN  <<Str("-i"), file_path, Str("-af"), filter, output_file, Str("-y")>>

\* The reversal is left out: the input is copied as it is.
ReverseSkipped(file_path, output_file) ==
    <<Str("-i"), file_path, output_file, Str("-y")>>

ReverseArgs(file_path, output_file) ==
    <<Str("-i"), file_path, Str("-af"), Str("areverse"), output_file, Str("-y")>>

NormalizeArgs(file_path, output_file) ==
    <<Str("-i"), file_path, Str("-af"), Str("loudnorm"), output_file, Str("-y")>>

OverlayArgs(file_path, overlay_path, start_time, output_file) ==
    LET delay_ms == FmtUnsigned(as_millis(start_time))
        filter == <<"[1]adelay=">> \o delay_ms \o <<"|">> \o delay_ms \o <<"|">>
                    \o delay_ms \o <<"[d]; [0][d]amix=inputs=2:duration=first">>
    IN  <<Str("-i"), file_path, Str("-i"), overlay_path, Str("-filter_complex"),
          filter, output_file, Str("-y")>>

MergeArgs(list_path, output_path) ==
    <<Str("-f"), Str("concat"), Str("-safe"), Str("0"), Str("-i"), list_path,
      Str("-c"), Str("copy"), output_path, Str("-y")>>

\* writeln!(list_file, "file '{}'", audio.file_path)
ManifestLine(file_path) == <<"file", " ", "'">> \o file_path \o <<"'">>

\* The lines written by the loop over audios, in order.
ManifestLines(paths) == [n \in 1..Len(paths) |-> ManifestLine(paths[n])]

\* NamedTempFile::new(): a name that no existing temporary file has.
TmpName(n) == <<"/tmp/.tmp">> \o FmtUnsigned(n)

FreshTmpName(m) ==
    TmpName(CHOOSE n \in 1..(Cardinality(DOMAIN m) + 1) :
                /\ TmpName(n) \notin DOMAIN m
                /\ \A l \in 1..(n - 1) : TmpName(l) \in DOMAIN m)

\* The temporary file is kept on disk.
TempFileKept(m, path) == m

\* list_file goes out of scope: the temporary file is removed.
DropTempFile(m, path) == [p \in (DOMAIN m) \ {path} |-> m[p]]

-----------------------------------------------------------------------------
(* The engine, as far as the crate relies on it                            *)

\* The engine takes the argument before the trailing "-y" as its output.
OutputOf(argv) == argv[Len(argv) - 1]

\* On exit status zero the engine has written its output ("-y": replacing
\* whatever was there); k is the call whose engine wrote it.
EngineWrites(fs, argv, k) == (OutputOf(argv) :> k) @@ fs

-----------------------------------------------------------------------------
(* Calls                                                                   *)

Running == {k \in DOMAIN calls : calls[k].engine = "running"}

\* Every operation blocks its thread, so a thread is inside at most one call:
\* a call can start while some thread is not blocked in one.
CanCall ==
    /\ nCalls < MaxCalls
    /\ Cardinality(Running) < MaxThreads

Call(op, self, others, args, effect, argv, onSuccess, label) ==
    [id |-> nCalls + 1, op |-> op, self |-> self,
     recv |-> IF self = 0 THEN NoLoc ELSE artifacts[self],
     others |-> others, args |-> args, effect |-> effect, argv |-> argv,
     manifest |-> NoLoc, lines |-> <<>>, engine |-> "none",
     onSuccess |-> onSuccess, label |-> label, result |-> Blocked, made |-> 0]

\* Command::new("ffmpeg").args(..).status().map_err(IoError)?  up to the spawn:
\* a failure to spawn returns IoError at once, otherwise the caller blocks.
Spawn(call, spawned) ==
    IF spawned
    THEN [call EXCEPT !.engine = "running"]
    ELSE [call EXCEPT !.engine = "spawnfail", !.result = IoError]

\* The receiver is updated in place before it is returned.
ReceiverUpdated(arts, self, result) ==
    IF result.kind # "Ok" THEN arts
    ELSE IF self = 0 THEN Append(arts, result.loc)
    ELSE Append([arts EXCEPT ![self] = result.loc], result.loc)

\* Ok(AudioProcessor { file_path: .. }): a new value; the receiver is borrowed
\* (&self) and stays as it is.
NewArtifact(arts, self, result) ==
    IF result.kind = "Ok" THEN Append(arts, result.loc) ELSE arts

\* The handle of the value a call returned (0: it returned none).
Made(arts, result) == IF result.kind = "Ok" THEN Len(arts) ELSE 0

\* No call has returned yet.
NoCall ==
    [op |-> "none", engine |-> "none", result |-> Blocked, made |-> 0,
     written |-> NoLoc]

\* What a caller has in hand when its call returns: the operation it called,
\* how the engine ended, the result, and where the engine wrote if it succeeded.
Outcome(call) ==
    [op |-> call.op, engine |-> call.engine, result |-> call.result,
     made |-> call.made,
     written |-> IF call.engine = "exit0" THEN OutputOf(call.argv) ELSE NoLoc]

\* A call has started and is now blocked on its engine, or has returned at once.
Started(call) ==
    /\ nCalls' = nCalls + 1
    /\ calls' = IF call.engine = "running" \/ call.made # 0
                THEN (call.id :> call) @@ calls ELSE calls
    /\ last' = IF call.engine = "running" THEN last ELSE Outcome(call)

\* Call k has returned.
Returned(k, call) ==
    /\ calls' = IF call.made # 0
                THEN [calls EXCEPT ![k] = call]
                ELSE [j \in (DOMAIN calls) \ {k} |-> calls[j]]
    /\ last' = Outcome(call)
    /\ nCalls' = nCalls

Init ==
    /\ artifacts = <<PlainFile>>
    /\ calls = <<>>
    /\ last = NoCall
    /\ nCalls = 0
    /\ files = [p \in BaseFiles |-> 0]
    /\ manifests = <<>>

New(file_path, readable) ==
    /\ CanCall
    /\ LET exists == file_path \in DOMAIN files
           result == IF exists /\ readable THEN Ok(file_path) ELSE IoError
           call == Call("new", 0, <<file_path>>, <<>>, NoEffect, <<>>,
                        Ok(file_path), "")
       IN  /\ artifacts' = NewArtifact(artifacts, 0, result)
           /\ Started([call EXCEPT !.result = result,
                                        !.made = Made(artifacts', result)])
    /\ UNCHANGED <<files, manifests>>

Seek(i, position, spawned) ==
    /\ CanCall
    /\ LET file_path == artifacts[i]
           output_file == Prefixed("seeked_", file_path)
           argv == SeekArgs(file_path, position, output_file)
       IN  Started(Spawn(Call("seek", i, <<>>, <<position>>,
                        NoEffect, argv, Ok(output_file), "ffmpeg seek failed"), spawned))
    /\ UNCHANGED <<artifacts, files, manifests>>

Trim(i, start, end, spawned) ==
    /\ CanCall
    /\ LET file_path == artifacts[i]
           output_file == Prefixed("trimmed_", file_path)
           argv == TrimArgs(file_path, start, end, output_file)
       IN  Started(Spawn(Call("trim", i, <<>>, <<start, end>>,
                        NoEffect, argv, Ok(output_file), "ffmpeg trim failed"), spawned))
    /\ UNCHANGED <<artifacts, files, manifests>>

Transcode(i, output_path, spawned) ==
    /\ CanCall
    /\ LET file_path == artifacts[i]
           argv == TranscodeArgs(file_path, output_path)
       IN  Started(Spawn(Call("transcode", i, <<>>, <<>>,
                        NoEffect, argv, OkUnit, "ffmpeg transcode failed"), spawned))
    /\ UNCHANGED <<artifacts, files, manifests>>

AdjustVolume(i, factor, spawned) ==
    /\ CanCall
    /\ LET file_path == artifacts[i]
           output_file == Prefixed("volume_adjusted_", file_path)
           argv == AdjustVolumeArgs(file_path, factor, output_file)
       IN  Started(Spawn(Call("adjust_volume", i, <<>>, <<factor>>,
                        NoEffect, argv, Ok(output_file), "ffmpeg adjust volume failed"),
                        spawned))
    /\ UNCHANGED <<artifacts, files, manifests>>

ChangeSpeed(i, factor, spawned) ==
    /\ CanCall
    /\ LET file_path == artifacts[i]
           output_file == Prefixed("speed_changed_", file_path)
           argv == ChangeSpeedArgs(file_path, factor, output_file)
       IN  Started(Spawn(Call("change_speed", i, <<>>, <<factor>>,
                        NoEffect, argv, Ok(output_file), "ffmpeg change speed failed"),
                        spawned))
    /\ UNCHANGED <<artifacts, files, manifests>>

ApplyEffect(i, effect, spawned) ==
    /\ CanCall
    /\ LET file_path == artifacts[i]
           output_file == Prefixed("effected_", file_path)
           argv == ApplyEffectArgs(file_path, effect, output_file)
       IN  Started(Spawn(Call("apply_effect", i, <<>>, <<>>,
                        effect, argv, Ok(output_file), "ffmpeg apply effect failed"),
                        spawned))
    /\ UNCHANGED <<artifacts, files, manifests>>

Reverse(i, spawned) ==
    /\ CanCall
    /\ LET file_path == artifacts[i]
           output_file == Prefixed("reversed_", file_path)
           argv == ReverseArgs(file_path, output_file)
       IN  Started(Spawn(Call("reverse", i, <<>>, <<>>,
                        NoEffect, argv, Ok(output_file), "ffmpeg reverse failed"), spawned))
    /\ UNCHANGED <<artifacts, files, manifests>>

Normalize(i, spawned) ==
    /\ CanCall
    /\ LET file_path == artifacts[i]
           output_file == Prefixed("normalized_", file_path)
           argv == NormalizeArgs(file_path, output_file)
       IN  Started(Spawn(Call("normalize", i, <<>>, <<>>,
                        NoEffect, argv, Ok(output_file), "ffmpeg normalize failed"),
                        spawned))
    /\ UNCHANGED <<artifacts, files, manifests>>

Overlay(i, j, start_time, spawned) ==
    /\ CanCall
    /\ LET file_path == artifacts[i]
           overlay_path == artifacts[j]
           output_file == Prefixed("overlayed_", file_path)
           argv == OverlayArgs(file_path, overlay_path, start_time, output_file)
       IN  Started(Spawn(Call("overlay", i, <<overlay_path>>,
                        <<start_time>>, NoEffect, argv, Ok(output_file),
                        "ffmpeg overlay failed"), spawned))
    /\ UNCHANGED <<artifacts, files, manifests>>

\* Where merge_audios can leave before it blocks on the engine, or "running".
MergeStages == {"tempfile", "write", "flush", "to_str", "spawn", "running"}

MergeAudios(audios, output_path, stage) ==
    /\ CanCall
    /\ stage = "write" => Len(audios) > 0
    /\ LET paths == [n \in 1..Len(audios) |-> artifacts[audios[n]]]
           list_path == FreshTmpName(manifests)
           created == (list_path :> ManifestLines(paths)) @@ manifests
           argv == MergeArgs(list_path, output_path)
           call == Call("merge_audios", 0, paths, <<>>, NoEffect, argv,
                        Ok(output_path), "ffmpeg merge failed")
       IN  CASE stage = "tempfile" ->
                   \* NamedTempFile::new() failed: nothing was created
                   /\ Started([call EXCEPT !.argv = <<>>,
                                   !.result = IoError])
                   /\ UNCHANGED manifests
             [] stage \in {"write", "flush"} ->
                   /\ Started([call EXCEPT !.argv = <<>>,
                                   !.result = IoError])
                   /\ manifests' = DropTempFile(created, list_path)
             [] stage = "to_str" ->
                   /\ Started([call EXCEPT !.argv = <<>>,
                                   !.result = Panicked])
                   /\ manifests' = DropTempFile(created, list_path)
             [] stage = "spawn" ->
                   /\ Started(Spawn(call, FALSE))
                   /\ manifests' = DropTempFile(created, list_path)
             [] stage = "running" ->
                   /\ Started([Spawn(call, TRUE) EXCEPT
                                   !.manifest = list_path, !.lines = created[list_path]])
                   /\ manifests' = created
    /\ UNCHANGED <<artifacts, files>>

\* The engine of call k ends; its caller wakes up, looks at the status and returns.
EngineExit(k, success) ==
    /\ calls[k].engine = "running"
    /\ LET c == calls[k]
           result == StatusResult(success, c.onSuccess, c.label)
       IN  /\ artifacts' = NewArtifact(artifacts, c.self, result)
           /\ Returned(k, [c EXCEPT !.engine = IF success THEN "exit0" ELSE "exit1",
                                     !.result = result,
                                     !.made = Made(artifacts', result)])
           /\ files' = IF success THEN EngineWrites(files, c.argv, k) ELSE files
           /\ manifests' = IF c.manifest # NoLoc
                           THEN DropTempFile(manifests, c.manifest) ELSE manifests

\* The lists of Artifacts handed to merge_audios: none, one, or two of the
\* values created so far, in either order, the same one twice included.
MergeLists ==
    {<<>>} \cup {<<i>> : i \in DOMAIN artifacts}
        \cup {<<i, j>> : i \in DOMAIN artifacts, j \in DOMAIN artifacts}

Next ==
    \/ \E p \in NewPaths, r \in BOOLEAN : New(p, r)
    \/ \E i \in DOMAIN artifacts, d \in Positions, s \in BOOLEAN :
          Seek(i, d, s)
    \/ \E i \in DOMAIN artifacts, r \in TrimRanges, s \in BOOLEAN :
          Trim(i, r[1], r[2], s)
    \/ \E i \in DOMAIN artifacts, o \in OutPaths, s \in BOOLEAN :
          Transcode(i, o, s)
    \/ \E i \in DOMAIN artifacts, f \in Gains, s \in BOOLEAN :
          AdjustVolume(i, f, s)
    \/ \E i \in DOMAIN artifacts, f \in Factors, s \in BOOLEAN :
          ChangeSpeed(i, f, s)
    \/ \E i \in DOMAIN artifacts, e \in AudioEffect, s \in BOOLEAN :
          ApplyEffect(i, e, s)
    \/ \E i \in DOMAIN artifacts, s \in BOOLEAN : Reverse(i, s)
    \/ \E i \in DOMAIN artifacts, s \in BOOLEAN : Normalize(i, s)
    \/ \E i \in DOMAIN artifacts, j \in DOMAIN artifacts,
          d \in OverlayStarts, s \in BOOLEAN : Overlay(i, j, d, s)
    \/ \E a \in MergeLists, o \in OutPaths, g \in MergeStages :
          MergeAudios(a, o, g)
    \/ \E k \in DOMAIN calls, ok \in BOOLEAN : EngineExit(k, ok)

Spec == Init /\ [][Next]_vars

-----------------------------------------------------------------------------
(* Properties                                                              *)

EngineOps ==
    {"seek", "trim", "transcode", "adjust_volume", "change_speed", "apply_effect",
     "reverse", "normalize", "overlay", "merge_audios"}

PrefixOps == EngineOps \ {"transcode", "merge_audios"}

\* The call built an argument vector and handed it to the engine.
Issued(c) == c.engine # "none"

\* The operands of the "-i" flags of an argument vector.
InputsOf(argv) == {argv[n + 1] : n \in {m \in 1..(Len(argv) - 1) : argv[m] = Str("-i")}}

\* Every location an invocation reads: its "-i" operands and, for the concat
\* demuxer, the locations of the merged Artifacts.
LocationsRead(c) ==
    InputsOf(c.argv) \cup
        (IF c.op = "merge_audios" THEN {c.others[n] : n \in DOMAIN c.others} ELSE {})

\* The diagnostic each operation is expected to carry on a failing exit.
OwnLabel(op) ==
    CASE op = "seek" -> "ffmpeg seek failed"
      [] op = "trim" -> "ffmpeg trim failed"
      [] op = "transcode" -> "ffmpeg transcode failed"
      [] op = "adjust_volume" -> "ffmpeg adjust volume failed"
      [] op = "change_speed" -> "ffmpeg change speed failed"
      [] op = "apply_effect" -> "ffmpeg apply effect failed"
      [] op = "reverse" -> "ffmpeg reverse failed"
      [] op = "normalize" -> "ffmpeg normalize failed"
      [] op = "overlay" -> "ffmpeg overlay failed"
      [] op = "merge_audios" -> "ffmpeg merge failed"

\* C1, parts shared by the claim as written and as amended: a nonzero exit
\* gives FfmpegError with the operation's own label and no Artifact, a failure
\* to spawn gives IoError.
FailureDecided(c) ==
    /\ c.engine = "exit1" =>
          /\ c.result = FfmpegError(OwnLabel(c.op))
          /\ c.made = 0
    /\ c.engine = "spawnfail" =>
          /\ c.result.kind = "IoError"
          /\ c.result.kind # "FfmpegError"
          /\ c.made = 0

\* C1 (as written): for every public operation the result is decided by how
\* the engine invocation ends: exit status zero gives success carrying exactly
\* the output location passed in the argument vector, a nonzero exit gives
\* FfmpegError with the operation's own label and no Artifact, a failure to
\* spawn gives IoError.
C1_SuccessCarriesOutput ==
    /\ last.op \in EngineOps =>
          /\ last.engine = "exit0" => last.result = Ok(last.written)
          /\ FailureDecided(last)
    /\ \A k \in DOMAIN calls :
          (calls[k].op \in EngineOps /\ calls[k].engine = "exit0") =>
              calls[k].result = Ok(OutputOf(calls[k].argv))

\* C1 (amended): as above, except that a successful transcode carries no
\* location: it returns the unit value; every other operation returns an
\* Artifact whose location is the output location passed to the engine.
C1_OutcomeDecidesResult ==
    /\ last.op \in EngineOps =>
          /\ last.engine = "exit0" =>
                IF last.op = "transcode"
                THEN last.result = OkUnit /\ last.made = 0
                ELSE /\ last.result = Ok(last.written)
                     /\ last.made \in DOMAIN artifacts
                     /\ artifacts[last.made] = last.written
          /\ FailureDecided(last)
    /\ \A k \in DOMAIN calls :
          (calls[k].op \in EngineOps /\ calls[k].engine = "exit0") =>
              /\ calls[k].result = Ok(OutputOf(calls[k].argv))
              /\ artifacts[calls[k].made] = OutputOf(calls[k].argv)

\* A merge_audios has succeeded, and after it a transcode.
C1_Witness ==
    /\ \E k \in DOMAIN calls : calls[k].op = "merge_audios" /\ calls[k].engine = "exit0"
    /\ last.op = "transcode" /\ last.engine = "exit0"

\* The calls in progress and those whose Artifact is around.
Known == {calls[k] : k \in DOMAIN calls}

\* C2: in every engine invocation issued by any operation, the output location
\* differs from every input location of that invocation (no location is
\* edited in place), transcode and merge_audios included.
C2_NeverInPlace ==
    \A c \in Known :
        (c.op \in EngineOps /\ Issued(c)) => OutputOf(c.argv) \notin LocationsRead(c)

\* C3: whenever a manifest exists, the merge_audios call that created it has
\* not returned yet: it is blocked on its engine.  So after merge_audios has
\* returned, on any path, its manifest is gone.
C3_ManifestReleased ==
    \A p \in DOMAIN manifests :
        \E k \in Running : calls[k].op = "merge_audios" /\ calls[k].manifest = p

\* A merge_audios call has returned after its manifest was read by an engine
\* that exited with a failure, and no call is in progress.
C3_Witness ==
    /\ Running = {}
    /\ last.op = "merge_audios" /\ last.engine = "exit1"
    /\ DOMAIN manifests = {}

\* The place of a flag in an argument vector (0: it is not there).
Pos(argv, flag) ==
    IF \E n \in DOMAIN argv : argv[n] = Str(flag)
    THEN CHOOSE n \in DOMAIN argv : argv[n] = Str(flag)
    ELSE 0

\* C4: every trim(start, end) places the seek-start flag and value before the
\* input token, the seek-end flag and value after the input token and before
\* the stream-copy flags, and asks for stream copy; trim(1s, 4s) gives the
\* values "1" and "4".
C4_TrimArgumentOrder ==
    \A c \in Known :
        LET a == c.argv
            ss == Pos(a, "-ss")
            to == Pos(a, "-to")
            in == Pos(a, "-i")
            cp == Pos(a, "-c")
        IN  (c.op = "trim" /\ Issued(c)) =>
              /\ 0 < ss /\ ss + 1 < in
              /\ in + 1 < to /\ to + 1 < cp
              /\ a[cp + 1] = Str("copy")
              /\ c.args = <<1000, 4000>> => (a[ss + 1] = Str("1") /\ a[to + 1] = Str("4"))

\* The parameters of a call lie outside their documented domain.
DomainViolated(c) ==
    \/ c.op = "trim" /\ c.args[1] > c.args[2]
    \/ c.op = "change_speed" /\ c.args[1] <= 0
    \/ c.op = "apply_effect" /\ c.effect.kind = "Echo"
          /\ ~(0 < c.effect.decay /\ c.effect.decay <= 1000)
    \/ c.op = "merge_audios" /\ c.others = <<>>

\* C5: an operation whose parameters violate their domain fails with
\* InvalidParameter and does not invoke the engine.
C5_InvalidParameterRejected ==
    \A c \in Known :
        DomainViolated(c) => (c.result.kind = "InvalidParameter" /\ ~Issued(c))

\* The pieces of s between the separators sep.
RECURSIVE Split(_, _)
Split(s, sep) ==
    IF \E n \in DOMAIN s : s[n] = sep
    THEN LET n == CHOOSE m \in DOMAIN s : s[m] = sep /\ \A l \in 1..(m - 1) : s[l] # sep
         IN  <<SubSeq(s, 1, n - 1)>> \o Split(SubSeq(s, n + 1, Len(s)), sep)
    ELSE <<s>>

DigitValue(t) == CHOOSE d \in 0..9 : Digit(d) = t

RECURSIVE ParseDigits(_)
ParseDigits(s) ==
    IF s = <<>> THEN 0
    ELSE ParseDigits(SubSeq(s, 1, Len(s) - 1)) * 10 + DigitValue(s[Len(s)])

RECURSIVE Pow10(_)
Pow10(n) == IF n = 0 THEN 1 ELSE 10 * Pow10(n - 1)

\* A decimal number read back as thousandths.
ParseF32(ts) ==
    LET neg == ts # <<>> /\ ts[1] = "-"
        body == IF neg THEN Tail(ts) ELSE ts
        parts == Split(body, ".")
        whole == ParseDigits(parts[1]) * 1000
        frac == IF Len(parts) = 1 THEN 0
                ELSE ParseDigits(parts[2]) * Pow10(3 - Len(parts[2]))
    IN  IF neg THEN 0 - (whole + frac) ELSE whole + frac

\* The tempo factors of a filter: its comma-separated atempo fragments.
TempoFragments(filter) ==
    LET frags == Split(filter, ",")
    IN  [n \in DOMAIN frags |-> ParseF32(Tail(frags[n]))]

RECURSIVE Product(_)
Product(seq) == IF seq = <<>> THEN 1 ELSE seq[1] * Product(Tail(seq))

\* C6: change_speed(factor) issues exactly one tempo fragment when the factor
\* is in [0.5, 2.0]; outside that range it issues a chain of fragments, each in
\* [0.5, 2.0], whose product is the factor.
C6_TempoChain ==
    \A c \in Known :
        LET factor == c.args[1]
            filter == c.argv[Pos(c.argv, "-filter:a") + 1]
            tempo == TempoFragments(filter)
        IN  (c.op = "change_speed" /\ Issued(c) /\ factor > 0) =>
              /\ \A n \in DOMAIN filter : filter[n] = "atempo=" <=> (n = 1 \/ filter[n - 1] = ",")
              /\ (500 <= factor /\ factor <= 2000) => Len(tempo) = 1
              /\ \A n \in DOMAIN tempo : 500 <= tempo[n] /\ tempo[n] <= 2000
              /\ Product(tempo) = factor * Pow10(3 * (Len(tempo) - 1))

\* How the concat demuxer reads a quoted token: inside '...' every character
\* is literal, outside a backslash escapes the next one and a blank ends it.
RECURSIVE Unquote(_, _, _)
Unquote(s, n, quoted) ==
    IF n > Len(s) THEN <<>>
    ELSE IF quoted
         THEN IF s[n] = "'" THEN Unquote(s, n + 1, FALSE)
              ELSE <<s[n]>> \o Unquote(s, n + 1, TRUE)
    ELSE IF s[n] = "'" THEN Unquote(s, n + 1, TRUE)
    ELSE IF s[n] = "\\"
         THEN IF n < Len(s) THEN <<s[n + 1]>> \o Unquote(s, n + 2, FALSE) ELSE <<>>
    ELSE IF s[n] = " " THEN <<>>
    ELSE <<s[n]>> \o Unquote(s, n + 1, FALSE)

\* The location a manifest line names, as the concat demuxer reads it.
ConcatRead(line) ==
    IF Len(line) >= 2 /\ line[1] = "file" /\ line[2] = " "
    THEN Unquote(line, 3, FALSE)
    ELSE NoLoc

\* C7: when merge_audios invokes the engine with the concat demuxer, the
\* manifest holds one line per input, in the order of the list (duplicates
\* kept), and each line reads back as the location of its input.
C7_ManifestReadsBack ==
    \A c \in Known :
        (c.op = "merge_audios" /\ c.manifest # NoLoc) =>
            /\ Pos(c.argv, "concat") = Pos(c.argv, "-f") + 1
            /\ c.argv[Pos(c.argv, "-i") + 1] = c.manifest
            /\ Len(c.lines) = Len(c.others)
            /\ \A n \in DOMAIN c.lines : ConcatRead(c.lines[n]) = c.others[n]

\* C8: no step changes an Artifact value created earlier: whatever operation
\* starts or returns, successfully or not, every earlier value keeps the
\* location it was created with and is still there to be used as an input.
C8_ArtifactsUnchanged ==
    [][\A i \in DOMAIN artifacts :
          i \in DOMAIN artifacts' /\ artifacts'[i] = artifacts[i]]_vars

\* The first Artifact has been the receiver and the overlaid input of an
\* overlay that succeeded, then the receiver of a call that failed.
C8_Witness ==
    /\ \E c \in Known :
          /\ c.op = "overlay" /\ c.self = 1 /\ c.engine = "exit0"
          /\ c.others = <<artifacts[1]>>
    /\ last.op = "normalize" /\ last.engine = "exit1"
    /\ artifacts[1] = PlainFile

\* Call d is a reverse of the Artifact that the reverse call c returned.
ReverseOfReverse(c, d) ==
    /\ c.op = "reverse" /\ d.op = "reverse"
    /\ c.made # 0 /\ d.self = c.made

\* C9: reverse applied twice in a chain issues two engine invocations in order,
\* each with the reverse filter; the second reads the location the first wrote,
\* and writes (and on success returns) the reverse prefix applied twice to the
\* original location.  No reverse call returns without invoking the engine.
C9_DoubleReverse ==
    /\ \A c \in Known :
          c.op = "reverse" =>
              /\ Issued(c)
              /\ c.argv[Pos(c.argv, "-af") + 1] = Str("areverse")
    /\ \A c \in Known, d \in Known :
          ReverseOfReverse(c, d) =>
              /\ c.id < d.id
              /\ InputsOf(c.argv) = {c.recv}
              /\ InputsOf(d.argv) = {OutputOf(c.argv)}
              /\ OutputOf(d.argv) = <<"reversed_", "reversed_">> \o c.recv
              /\ d.engine = "exit0" =>
                    /\ d.result = Ok(<<"reversed_", "reversed_">> \o c.recv)
                    /\ artifacts[d.made] = <<"reversed_", "reversed_">> \o c.recv

\* Both reversals of a chain have succeeded.
C9_Witness ==
    \E c \in Known, d \in Known : ReverseOfReverse(c, d) /\ d.engine = "exit0"

\* Calls c and d are the same prefix-named operation on Artifacts of the same
\* location.
SameKindAndReceiver(c, d) ==
    /\ c.id # d.id
    /\ c.op \in PrefixOps /\ d.op = c.op
    /\ c.recv = d.recv

\* C10: two calls of the same prefix-named operation on the same location,
\* whatever their parameters and whether one runs after the other or both at
\* once, target the same output location, with overwrite asserted; when both
\* have succeeded, the Artifacts they returned name that one location, and
\* the step in which the later one succeeds makes the file at that location
\* the one its engine wrote, in place of an earlier call's.
C10_SameOutputLocation ==
    /\ [](\A c \in Known, d \in Known :
            SameKindAndReceiver(c, d) =>
                /\ Issued(c) /\ Issued(d)
                /\ OutputOf(c.argv) = OutputOf(d.argv)
                /\ d.argv[Len(d.argv)] = Str("-y")
                /\ (c.engine = "exit0" /\ d.engine = "exit0") =>
                      /\ artifacts[c.made] = OutputOf(d.argv)
                      /\ artifacts[d.made] = OutputOf(d.argv))
    /\ [][\A j \in DOMAIN calls, k \in DOMAIN calls :
            (/\ SameKindAndReceiver(calls[j], calls[k])
             /\ calls[j].engine = "exit0"
             /\ calls[k].engine = "running"
             /\ k \in DOMAIN calls' /\ calls'[k].engine = "exit0") =>
                /\ files[OutputOf(calls[k].argv)] \in 1..nCalls \ {k}
                /\ files'[OutputOf(calls[k].argv)] = k]_vars

\* Two adjust_volume calls on the same Artifact with different factors were
\* running at once; both have succeeded, the one started first finishing last.
C10_Witness ==
    \E c \in Known, d \in Known :
        /\ c.id < d.id
        /\ c.op = "adjust_volume" /\ SameKindAndReceiver(c, d)
        /\ c.args # d.args
        /\ c.engine = "exit0" /\ d.engine = "exit0"
        /\ d.made < c.made
        /\ files[OutputOf(c.argv)] = c.id

=============================================================================
